---- MODULE Spec2Model ----
(***************************************************************************)
(* A model of gitscout (src/src/gitscout/cli.py): the DocGenerator class   *)
(* (constructor, get_recent_changes, _build_prompt, _build_system_prompt,  *)
(* generate_docs, write_mkdocs_configuration) and the cli command.         *)
(*                                                                         *)
(* Paths are pathlib paths: a record [abs, parts], parts being the path's  *)
(* components; "." components are dropped by pathlib, ".." are kept until  *)
(* resolve().  The file system holds no symbolic links.                    *)
(***************************************************************************)
EXTENDS Integers, Sequences, FiniteSets, TLC

VARIABLES
    cwd,                  \* the process's working directory (absolute parts)
    repo_path,            \* cli argument repo_path / DocGenerator.repo_path
    output_path,          \* cli option --output-path / DocGenerator.output_path
    tracked,              \* lines of `git ls-files`: paths relative to the work tree
    scan,                 \* the order in which the root's subdirectories are listed
    remote,               \* the work tree's remote "origin": [exists, url, refs]
    gen, serve, open, include_changelog, count_tokens,   \* cli flags
    usage,                \* tokens a response reports (0: the model reports none)
    commits,              \* the commits `iter_commits("main")` returns
    pc,                   \* where the run is
    caller,               \* who called generate_docs / get_recent_changes
    repo_url,             \* DocGenerator.repo_url
    repo_url_file_prefix, \* DocGenerator.repo_url_file_prefix (<<>>: None)
    total_tokens,         \* DocGenerator.total_tokens
    walk,                 \* directories os.walk has still to yield
    generated_readmes,    \* generate_docs' local mapping, in insertion order
    calls,                \* every model invocation so far, in order
    written,              \* every write_text so far, in order
    dirs_made,            \* directories created by mkdir so far
    outExists,            \* output_path.exists()
    echoed,               \* messages printed by click.echo
    served, opened,       \* mkdocs_serve called, webbrowser.open called
    changes               \* what get_recent_changes returned

vars == <<cwd, repo_path, output_path, tracked, scan, remote, gen, serve, open,
          include_changelog, count_tokens, usage, commits, pc, caller, repo_url,
          repo_url_file_prefix, total_tokens, walk, generated_readmes, calls,
          written, dirs_made, outExists, echoed, served, opened, changes>>

inputs == <<cwd, repo_path, output_path, tracked, scan, remote, gen, serve, open,
            include_changelog, count_tokens, usage, commits, caller>>

-----------------------------------------------------------------------------
(* pathlib *)

AbsPath(parts) == [abs |-> TRUE, parts |-> parts]

RelPath(parts) == [abs |-> FALSE, parts |-> parts]

\* p / q: an absolute right operand discards the left one.
Join(p, q) ==
    IF q.abs THEN q ELSE [abs |-> p.abs, parts |-> p.parts \o q.parts]

IsPrefix(s, t) == Len(s) <= Len(t) /\ SubSeq(t, 1, Len(s)) = s

\* ".." handling of resolve(): drop the component before it.
RECURSIVE Normalize(_, _)
Normalize(parts, acc) ==
    IF parts = <<>> THEN acc
    ELSE IF Head(parts) = ".."
         THEN Normalize(Tail(parts),
                        IF acc = <<>> THEN acc ELSE SubSeq(acc, 1, Len(acc) - 1))
         ELSE Normalize(Tail(parts), Append(acc, Head(parts)))

\* Path.resolve(): a relative path is taken from the working directory.
Resolve(p) ==
    AbsPath(Normalize(IF p.abs THEN p.parts ELSE cwd \o p.parts, <<>>))

\* Path.parents
Parents(p) ==
    {[abs |-> p.abs, parts |-> SubSeq(p.parts, 1, k)] : k \in 0..(Len(p.parts) - 1)}

\* PurePath.is_relative_to: lexical.
IsRelativeTo(p, q) == p.abs = q.abs /\ IsPrefix(q.parts, p.parts)

\* PurePath.relative_to (for p.is_relative_to(q))
RelativeTo(p, q) == RelPath(SubSeq(p.parts, Len(q.parts) + 1, Len(p.parts)))

\* Path.name
Name(p) == IF p.parts = <<>> THEN "" ELSE p.parts[Len(p.parts)]

-----------------------------------------------------------------------------
(* The work tree on disk.  The repository is the directory /w/repo; the    *)
(* directories and files below are given relative to it.                   *)

RepoDir == <<"w", "repo">>

\* Files `git ls-files` may list (the index holds any subset of them).
TrackedPool ==
    {<<"README.md">>, <<"src", "main.py">>, <<"src", "pkg", "m.py">>, <<"tests", "t.py">>}

\* The names os.scandir finds in a directory of the work tree: its files...
DiskFileNames(d) ==
    CASE d = <<>>             -> <<"README.md", "notes.txt">>
      [] d = <<".git">>       -> <<"config">>
      [] d = <<"src">>        -> <<"main.py">>
      [] d = <<"src", "pkg">> -> <<"m.py">>
      [] d = <<"tests">>      -> <<"t.py">>
      [] OTHER                -> <<>>

\* ... and its subdirectories, in listing order.
DiskDirNames(d) ==
    CASE d = <<>>      -> scan
      [] d = <<"src">> -> <<"pkg">>
      [] OTHER         -> <<>>

DiskDirs == {<<>>, <<".git">>, <<"src">>, <<"src", "pkg">>, <<"tests">>}

Permutations3(S) ==
    {<<a, b, c>> : a \in S, b \in S, c \in S} \cap
    {s \in [1..3 -> S] : \A i, j \in 1..3 : i # j => s[i] # s[j]}

ScanOrders == Permutations3({".git", "src", "tests"})

\* os.walk(top, topdown=False): a directory is yielded after the whole subtree of
\* each of its subdirectories, taken in listing order.
RECURSIVE PostOrder(_)
RECURSIVE PostOrderAll(_, _)
PostOrderAll(d, names) ==
    IF names = <<>> THEN <<>>
    ELSE PostOrder(Append(d, Head(names))) \o PostOrderAll(d, Tail(names))

PostOrder(d) == PostOrderAll(d, DiskDirNames(d)) \o <<d>>

-----------------------------------------------------------------------------
(* DocGenerator._build_prompt and _build_system_prompt *)

Section(title, body) == [section |-> title, body |-> body]

SeqMapJoin(base, names) ==
    [i \in 1..Len(names) |-> Join(base, RelPath(<<names[i]>>))]

\* Mutant of ReadmeLabel: the label taken from the current directory.
ReadmeLabelFromCurrent(subdir, root) ==
    Join(RelativeTo(subdir, root), RelPath(<<"README.md">>))

\* The "previously generated documentation" entries: the summaries whose
\* directory is_relative_to(root), each labelled relative_to(self.repo_path).
ReadmeLabel(subdir, root) ==
    Join(RelativeTo(subdir, repo_path), RelPath(<<"README.md">>))

ReadmeContext(root, readmes) ==
    LET Under(e) == IsRelativeTo(e.dir, root)
        kept == SelectSeq(readmes, Under)
    IN  [i \in 1..Len(kept) |->
            [label |-> ReadmeLabel(kept[i].dir, root), content |-> kept[i].text]]

\* f.read_text(): a file's content is named by the file.
ReadText(f) == <<"content of", Resolve(f).parts>>

BuildPrompt(root, dirs, files, readmes) ==
    <<Section("Current directory", <<root>>)>>
    \o (IF dirs # <<>> THEN <<Section("Subdirectories", dirs)>> ELSE <<>>)
    \o (IF files # <<>>
        THEN <<Section("Files",
                       [i \in 1..Len(files) |->
                           [path |-> files[i], content |-> ReadText(files[i])]])>>
        ELSE <<>>)
    \o (IF readmes # <<>> /\ ReadmeContext(root, readmes) # <<>>
        THEN <<Section("Previously generated documentation",
                       ReadmeContext(root, readmes))>>
        ELSE <<>>)

Clause(name, arg) == [clause |-> name, arg |-> arg]

BuildSystemPrompt(is_repo_root) ==
    <<Clause("overview", <<>>)>>
    \o (IF repo_url_file_prefix # <<>>
        THEN <<Clause("link files", repo_url_file_prefix)>> ELSE <<>>)
    \o (IF is_repo_root THEN <<Clause("repository root", <<>>)>> ELSE <<>>)

-----------------------------------------------------------------------------
(* DocGenerator.generate_docs *)

\* `git ls-files` prints paths relative to the work tree; Path(f).resolve()
\* takes them from the process's working directory.
AllFiles == {Resolve(RelPath(f)) : f \in tracked}

ResolvedRepoPath == Resolve(repo_path)

AllDirectories ==
    {d \in UNION {Parents(f) : f \in AllFiles} : IsRelativeTo(d, ResolvedRepoPath)}

\* os.walk's root for the directory d of the work tree.
WalkRoot(d) == Join(repo_path, RelPath(d))

IsVisited(d) == Resolve(WalkRoot(d)) \in AllDirectories

\* Mutant of IsRepoRoot: the walk's root compared before it is resolved.
IsRepoRootUnresolved(d) == WalkRoot(d) = ResolvedRepoPath

IsRepoRoot(d) == Resolve(WalkRoot(d)) = ResolvedRepoPath

FilteredDirs(d) ==
    LET In(p) == Resolve(p) \in AllDirectories
    IN  SelectSeq(SeqMapJoin(WalkRoot(d), DiskDirNames(d)), In)

FilteredFiles(d) ==
    LET In(p) == Resolve(p) \in AllFiles
    IN  SelectSeq(SeqMapJoin(WalkRoot(d), DiskFileNames(d)), In)

\* output_path / "docs" / root / "README.md"
DocPath(root) ==
    Join(Join(Join(output_path, RelPath(<<"docs">>)), root), RelPath(<<"README.md">>))

DocDir(root) == Join(Join(output_path, RelPath(<<"docs">>)), root)

DirName(d) == IF IsRepoRoot(d) THEN <<Name(ResolvedRepoPath)>> ELSE WalkRoot(d).parts

\* The text of the n-th response of the model.
ResponseText(n) == <<"response", n>>

\* response.usage().input or 0, response.usage().output or 0
OrZero(x) == IF x = <<>> THEN 0 ELSE x[1]

CountTokens ==
    IF count_tokens
    THEN total_tokens + OrZero(usage.input) + OrZero(usage.output)
    ELSE total_tokens

\* generated_readmes[key] = text
DictSet(dict, key, text) ==
    IF \E i \in 1..Len(dict) : dict[i].dir = key
    THEN [i \in 1..Len(dict) |->
             IF dict[i].dir = key THEN [dir |-> key, text |-> text] ELSE dict[i]]
    ELSE Append(dict, [dir |-> key, text |-> text])

DirCall(d, ok) ==
    [kind |-> "dir", root |-> WalkRoot(d),
     prompt |-> BuildPrompt(WalkRoot(d), FilteredDirs(d), FilteredFiles(d),
                            generated_readmes),
     system |-> BuildSystemPrompt(IsRepoRoot(d)), ok |-> ok]

\* mkdir(parents=True, exist_ok=True)
Mkdir(p) == dirs_made \cup {Resolve(p)} \cup Parents(Resolve(p))

\* A directory that is not in all_directories: `continue`.
WalkSkip ==
    /\ pc = "walk" /\ walk # <<>>
    /\ ~IsVisited(Head(walk))
    /\ walk' = Tail(walk)
    /\ UNCHANGED <<inputs, pc, repo_url, repo_url_file_prefix, total_tokens,
                   generated_readmes, calls, written, dirs_made, outExists, echoed,
                   served, opened, changes>>

\* One iteration of the loop, the model answering.
WalkVisit ==
    /\ pc = "walk" /\ walk # <<>>
    /\ IsVisited(Head(walk))
    /\ LET d == Head(walk)
           text == ResponseText(Len(calls) + 1)
       IN  /\ calls' = Append(calls, DirCall(d, TRUE))
           /\ total_tokens' = CountTokens
           /\ dirs_made' = Mkdir(DocDir(WalkRoot(d)))
           /\ written' = Append(written,
                                [path |-> Resolve(DocPath(WalkRoot(d))),
                                 text |-> <<"#", DirName(d), text>>])
           /\ generated_readmes' = DictSet(generated_readmes, WalkRoot(d), text)
    /\ walk' = Tail(walk)
    /\ UNCHANGED <<inputs, pc, repo_url, repo_url_file_prefix, outExists, echoed,
                   served, opened, changes>>

\* Mutant of WalkVisitFails: the failure caught, the walk going on.
WalkVisitFailsSwallowed ==
    /\ pc = "walk" /\ walk # <<>>
    /\ IsVisited(Head(walk))
    /\ calls' = Append(calls, DirCall(Head(walk), FALSE))
    /\ walk' = Tail(walk)
    /\ UNCHANGED <<inputs, pc, repo_url, repo_url_file_prefix, total_tokens,
                   generated_readmes, written, dirs_made, outExists, echoed, served,
                   opened, changes>>

\* One iteration of the loop, the model failing: the response is lazy, so the
\* exception leaves response.usage() (line 193) when tokens are counted, and
\* response.text() (line 199, after the mkdir of line 197) when they are not.
WalkVisitFails ==
    /\ pc = "walk" /\ walk # <<>>
    /\ IsVisited(Head(walk))
    /\ LET d == Head(walk)
       IN  /\ calls' = Append(calls, DirCall(d, FALSE))
           /\ dirs_made' = IF count_tokens THEN dirs_made
                           ELSE Mkdir(DocDir(WalkRoot(d)))
    /\ pc' = "raised"
    /\ UNCHANGED <<inputs, repo_url, repo_url_file_prefix, total_tokens, walk,
                   generated_readmes, written, outExists, echoed, served, opened,
                   changes>>

\* os.walk is exhausted: generate_docs returns (to cli, line 286).
WalkReturn ==
    /\ pc = "walk" /\ walk = <<>>
    /\ pc' = IF caller = "cli"
             THEN (IF include_changelog THEN "changelog" ELSE "tokens")
             ELSE "returned"
    /\ UNCHANGED <<inputs, repo_url, repo_url_file_prefix, total_tokens, walk,
                   generated_readmes, calls, written, dirs_made, outExists, echoed,
                   served, opened, changes>>

-----------------------------------------------------------------------------
(* DocGenerator.__init__ *)

\* A remote URL is a sequence of tokens, e.g. <<"https://", "github.com", "/",
\* "test/test_repo", ".git">>.  str.replace(old, new) on it:
Replace(url, old, new) ==
    LET Hit(t) == t # old
        rest == SelectSeq(url, Hit)
    IN  IF new = "" THEN rest
        ELSE [i \in 1..Len(url) |-> IF url[i] = old THEN new ELSE url[i]]

Contains(url, token) == \E i \in 1..Len(url) : url[i] = token

\* self.repo.remote().url.replace(".git", "").replace("git@", "https://")
RepoUrl(url) == Replace(Replace(url, ".git", ""), "git@", "https://")

\* Lines 32-42: the prefix of file links, <<>> standing for None.
FilePrefix(url, refs) ==
    LET IsOrigin(r) == r.remote_name = "origin"
        origin_refs == SelectSeq(refs, IsOrigin)
    IN  IF Contains(RepoUrl(url), "github.com")
        THEN IF origin_refs # <<>>
             THEN <<RepoUrl(url), "/blob/", origin_refs[1].remote_head, "/">>
             ELSE <<RepoUrl(url), "/blob/", "main", "/">>
        ELSE <<>>

\* Repo.remote() raises ValueError when the work tree has no remote "origin";
\* __init__ catches nothing.
RemoteRaises == ~remote.exists

\* cli, line 275: DocGenerator(repo_path, output_path, model, count_tokens)
Construct ==
    /\ pc = "start"
    /\ ~RemoteRaises
    /\ repo_url' = RepoUrl(remote.url)
    /\ repo_url_file_prefix' = FilePrefix(remote.url, remote.refs)
    /\ total_tokens' = 0
    /\ pc' = "constructed"
    /\ UNCHANGED <<inputs, walk, generated_readmes, calls, written, dirs_made,
                   outExists, echoed, served, opened, changes>>

ConstructRaises ==
    /\ pc = "start"
    /\ RemoteRaises
    /\ pc' = "raised"
    /\ UNCHANGED <<inputs, repo_url, repo_url_file_prefix, total_tokens, walk,
                   generated_readmes, calls, written, dirs_made, outExists, echoed,
                   served, opened, changes>>

-----------------------------------------------------------------------------
(* DocGenerator.get_recent_changes and generate_changelog *)

NumCommits == 5

DiffLimit == 500

\* A diff (bytes) is a UTF-8 text given as runs of n characters of w bytes each,
\* or holds a byte no character starts with (valid = FALSE).
RECURSIVE CharLen(_)
CharLen(runs) == IF runs = <<>> THEN 0 ELSE Head(runs).n + CharLen(Tail(runs))

RECURSIVE ByteLen(_)
ByteLen(runs) ==
    IF runs = <<>> THEN 0 ELSE Head(runs).w * Head(runs).n + ByteLen(Tail(runs))

\* text[:k]
RECURSIVE Take(_, _)
Take(runs, k) ==
    IF runs = <<>> \/ k <= 0 THEN <<>>
    ELSE IF Head(runs).n = 0 THEN Take(Tail(runs), k)
    ELSE IF Head(runs).n >= k THEN <<[w |-> Head(runs).w, n |-> k]>>
    ELSE <<Head(runs)>> \o Take(Tail(runs), k - Head(runs).n)

\* Mutant of DiffContent: the diff kept whole.
DiffContentWhole(d) == d.diff.runs

\* d.diff.decode("utf-8")[:500]
DiffContent(d) == Take(d.diff.runs, DiffLimit)

\* Lines 57-68: the files of one commit; a file with no a_path is left out, and
\* so is one whose diff does not decode.
RECURSIVE FilesChanged(_)
FilesChanged(diff) ==
    IF diff = <<>> THEN <<>>
    ELSE LET d == Head(diff)
         IN  (IF d.a_path # <<>> /\ d.diff.valid
              THEN <<[path |-> d.a_path, diff |-> DiffContent(d)]>>
              ELSE <<>>) \o FilesChanged(Tail(diff))

\* The messages printed for the files whose diff does not decode.
RECURSIVE DecodeErrors(_)
DecodeErrors(diff) ==
    IF diff = <<>> THEN <<>>
    ELSE LET d == Head(diff)
         IN  (IF d.a_path # <<>> /\ ~d.diff.valid
              THEN <<<<"Error processing diff for", d.a_path>>>>
              ELSE <<>>) \o DecodeErrors(Tail(diff))

\* iter_commits("main", max_count=num_commits)
RecentCommits == SubSeq(commits, 1, IF Len(commits) < NumCommits THEN Len(commits)
                                    ELSE NumCommits)

RecentChanges ==
    [i \in 1..Len(RecentCommits) |->
        [hash |-> RecentCommits[i].hexsha, files |-> FilesChanged(RecentCommits[i].diff)]]

RECURSIVE AllDecodeErrors(_)
AllDecodeErrors(cs) ==
    IF cs = <<>> THEN <<>>
    ELSE DecodeErrors(Head(cs).diff) \o AllDecodeErrors(Tail(cs))

\* get_recent_changes called on its own.
GetRecentChanges ==
    /\ pc = "changes"
    /\ changes' = RecentChanges
    /\ echoed' = echoed \o AllDecodeErrors(RecentCommits)
    /\ pc' = "returned"
    /\ UNCHANGED <<inputs, repo_url, repo_url_file_prefix, total_tokens, walk,
                   generated_readmes, calls, written, dirs_made, outExists, served,
                   opened>>

ChangelogCall(ok) ==
    [kind |-> "changelog", root |-> repo_path, prompt |-> RecentChanges,
     system |-> <<Clause("technical writer", <<>>)>>, ok |-> ok]

\* cli, lines 287-290, the model answering.
Changelog ==
    /\ pc = "changelog"
    /\ changes' = RecentChanges
    /\ echoed' = echoed \o AllDecodeErrors(RecentCommits)
    /\ calls' = Append(calls, ChangelogCall(TRUE))
    /\ total_tokens' = CountTokens
    /\ written' = Append(written,
                         [path |-> Resolve(Join(output_path, RelPath(<<"docs", "CHANGELOG.md">>))),
                          text |-> ResponseText(Len(calls) + 1)])
    /\ pc' = "tokens"
    /\ UNCHANGED <<inputs, repo_url, repo_url_file_prefix, walk, generated_readmes,
                   dirs_made, outExists, served, opened>>

\* cli, lines 287-289, the model failing.
ChangelogFails ==
    /\ pc = "changelog"
    /\ changes' = RecentChanges
    /\ echoed' = echoed \o AllDecodeErrors(RecentCommits)
    /\ calls' = Append(calls, ChangelogCall(FALSE))
    /\ pc' = "raised"
    /\ UNCHANGED <<inputs, repo_url, repo_url_file_prefix, total_tokens, walk,
                   generated_readmes, written, dirs_made, outExists, served, opened>>

-----------------------------------------------------------------------------
(* cli and DocGenerator.write_mkdocs_configuration *)

NoDocsError == "Error: No generated documentation found. Use --gen to generate docs first."

\* Lines 276-284, up to generate_docs' loop: the output tree is removed and
\* docs/ made anew, then os.walk starts.
CliGenerate ==
    /\ pc = "constructed" /\ gen
    /\ outExists' = TRUE
    /\ dirs_made' = Mkdir(Join(output_path, RelPath(<<"docs">>)))
    /\ walk' = PostOrder(<<>>)
    /\ generated_readmes' = <<>>
    /\ pc' = "walk"
    /\ UNCHANGED <<inputs, repo_url, repo_url_file_prefix, total_tokens, calls,
                   written, echoed, served, opened, changes>>

\* Lines 297-303: nothing to serve.
CliRefuse ==
    /\ pc = "constructed" /\ ~gen
    /\ serve /\ ~outExists
    /\ echoed' = Append(echoed, NoDocsError)
    /\ pc' = "done"
    /\ UNCHANGED <<inputs, repo_url, repo_url_file_prefix, total_tokens, walk,
                   generated_readmes, calls, written, dirs_made, outExists, served,
                   opened, changes>>

\* Mutant of CliNoGenerate: the configuration written only after generating.
CliNoGenerateSkipsConfiguration ==
    /\ pc = "constructed" /\ ~gen
    /\ ~(serve /\ ~outExists)
    /\ pc' = IF open \/ serve THEN "serve" ELSE "done"
    /\ UNCHANGED <<inputs, repo_url, repo_url_file_prefix, total_tokens, walk,
                   generated_readmes, calls, written, dirs_made, outExists, echoed,
                   served, opened, changes>>

\* Lines 297-299 otherwise.
CliNoGenerate ==
    /\ pc = "constructed" /\ ~gen
    /\ ~(serve /\ ~outExists)
    /\ pc' = "config"
    /\ UNCHANGED <<inputs, repo_url, repo_url_file_prefix, total_tokens, walk,
                   generated_readmes, calls, written, dirs_made, outExists, echoed,
                   served, opened, changes>>

\* Lines 292-296.
CliTokens ==
    /\ pc = "tokens"
    /\ echoed' = IF ~count_tokens THEN echoed
                 ELSE IF total_tokens # 0
                      THEN Append(echoed, "Total tokens used")
                      ELSE Append(echoed, "Unable to count tokens")
    /\ pc' = "config"
    /\ UNCHANGED <<inputs, repo_url, repo_url_file_prefix, total_tokens, walk,
                   generated_readmes, calls, written, dirs_made, outExists, served,
                   opened, changes>>

ConfigFile == Resolve(Join(output_path, RelPath(<<"mkdocs.yml">>)))

HooksFile == Resolve(Join(output_path, RelPath(<<"my_hooks.py">>)))

\* Line 305: write_mkdocs_configuration, the output directory being there.
WriteConfiguration ==
    /\ pc = "config" /\ outExists
    /\ written' = written \o
           <<[path |-> ConfigFile, text |-> <<"site", Name(ResolvedRepoPath), repo_url>>],
             [path |-> HooksFile, text |-> <<"hooks">>]>>
    /\ pc' = IF open \/ serve THEN "serve" ELSE "done"
    /\ UNCHANGED <<inputs, repo_url, repo_url_file_prefix, total_tokens, walk,
                   generated_readmes, calls, dirs_made, outExists, echoed, served,
                   opened, changes>>

\* Line 305, the output directory missing: write_text (line 228) raises
\* FileNotFoundError.
WriteConfigurationRaises ==
    /\ pc = "config" /\ ~outExists
    /\ pc' = "raised"
    /\ UNCHANGED <<inputs, repo_url, repo_url_file_prefix, total_tokens, walk,
                   generated_readmes, calls, written, dirs_made, outExists, echoed,
                   served, opened, changes>>

\* Lines 307-316.
Serve ==
    /\ pc = "serve"
    /\ echoed' = Append(echoed, "Serving docs")
    /\ opened' = open
    /\ served' = TRUE
    /\ pc' = "done"
    /\ UNCHANGED <<inputs, repo_url, repo_url_file_prefix, total_tokens, walk,
                   generated_readmes, calls, written, dirs_made, outExists, changes>>

-----------------------------------------------------------------------------
(* Inputs *)

MaxRefs == 2

MaxHistory == 6

MaxWidth == 4

OutputRoot == AbsPath(<<"out">>)

Urls ==
    {<<"https://", "github.com", "/", "test/test_repo", ".git">>,
     <<"git@", "github.com", ":", "test/test_repo", ".git">>,
     <<"https://", "gitlab.com", "/", "test/test_repo", ".git">>}

Heads == {"HEAD", "main", "dev"}

\* The remote-tracking refs of origin, in the order GitPython lists them.
RefLists ==
    LET lists == UNION {[1..n -> Heads] : n \in 0..MaxRefs}
        distinct == {s \in lists : \A i, j \in 1..Len(s) : i # j => s[i] # s[j]}
    IN  {[i \in 1..Len(s) |-> [remote_name |-> "origin", remote_head |-> s[i]]] :
            s \in distinct}

NoRemote == [exists |-> FALSE, url |-> <<>>, refs |-> <<>>]

Remotes ==
    {NoRemote} \cup {[exists |-> TRUE, url |-> u, refs |-> r] : u \in Urls, r \in RefLists}

NoUsage == [input |-> <<>>, output |-> <<>>]

Usages == {NoUsage, [input |-> <<3>>, output |-> <<1>>]}

Text(w1, n1, w2, n2) == <<[w |-> w1, n |-> n1], [w |-> w2, n |-> n2]>>

Counts == {0, 1, 100, DiffLimit - 1, DiffLimit, DiffLimit + 1}

\* The changed files of a commit: one of any shape, and a binary one.
Diffs ==
    {<<[a_path |-> p, diff |-> [valid |-> v, runs |-> Text(w1, n1, w2, n2)]],
       [a_path |-> <<"logo.png">>, diff |-> [valid |-> FALSE, runs |-> <<>>]]>> :
        p \in {<<>>, <<"a.py">>}, v \in BOOLEAN,
        w1 \in 1..MaxWidth, n1 \in Counts, w2 \in 1..MaxWidth, n2 \in Counts}

History(n, diff) == [i \in 1..n |-> [hexsha |-> i, diff |-> diff]]

SmallDiff ==
    <<[a_path |-> <<"a.py">>, diff |-> [valid |-> TRUE, runs |-> Text(1, 100, 2, 1)]]>>

Cwds == {RepoDir, <<"w">>, RepoDir \o <<"src">>}

RepoArgs ==
    {RelPath(<<>>), RelPath(<<"repo">>), RelPath(<<"..">>), RelPath(<<"..", "repo">>),
     AbsPath(RepoDir)}

Idle ==
    /\ total_tokens = 0
    /\ generated_readmes = <<>>
    /\ calls = <<>>
    /\ written = <<>>
    /\ echoed = <<>>
    /\ served = FALSE
    /\ opened = FALSE
    /\ changes = <<>>

\* The command is started in the work tree, as `gitscout .`.
Init ==
    /\ cwd = RepoDir
    /\ repo_path = RelPath(<<>>)
    /\ output_path = OutputRoot
    /\ tracked \in {{}, {<<"README.md">>}, {<<"src", "pkg", "m.py">>, <<"tests", "t.py">>}}
    /\ scan = <<".git", "src", "tests">>
    /\ remote \in Remotes
    /\ gen \in BOOLEAN /\ serve \in BOOLEAN /\ open \in BOOLEAN
    /\ include_changelog \in BOOLEAN /\ count_tokens \in BOOLEAN
    /\ usage \in IF count_tokens THEN Usages ELSE {NoUsage}
    /\ commits \in {History(n, SmallDiff) : n \in {0, 1}}
    /\ outExists \in BOOLEAN
    /\ pc = "start"
    /\ caller = "cli"
    /\ repo_url = <<>>
    /\ repo_url_file_prefix = <<>>
    /\ walk = <<>>
    /\ dirs_made = {}
    /\ Idle

Next ==
    \/ Construct \/ ConstructRaises
    \/ CliGenerate \/ CliRefuse \/ CliNoGenerate
    \/ WalkSkip \/ WalkVisit \/ WalkVisitFails \/ WalkReturn
    \/ Changelog \/ ChangelogFails
    \/ CliTokens
    \/ WriteConfiguration \/ WriteConfigurationRaises
    \/ Serve

Spec == Init /\ [][Next]_vars

\* generate_docs called on a generator of the work tree /w/repo, for every working
\* directory and every spelling of repo_path that names the work tree.
InitDocs ==
    /\ cwd \in Cwds
    /\ repo_path \in RepoArgs
    /\ Resolve(repo_path) = AbsPath(RepoDir)
    /\ output_path = OutputRoot
    /\ tracked \in SUBSET TrackedPool
    /\ scan \in ScanOrders
    /\ remote \in {[exists |-> TRUE, url |-> u, refs |-> <<>>] : u \in Urls}
    /\ gen = TRUE /\ serve = FALSE /\ open = FALSE
    /\ include_changelog = FALSE /\ count_tokens \in BOOLEAN
    /\ usage \in IF count_tokens THEN Usages ELSE {NoUsage}
    /\ commits = <<>>
    /\ outExists = TRUE
    /\ pc = "walk"
    /\ caller = "direct"
    /\ repo_url = RepoUrl(remote.url)
    /\ repo_url_file_prefix = FilePrefix(remote.url, remote.refs)
    /\ walk = PostOrder(<<>>)
    /\ dirs_made = {OutputRoot, Join(OutputRoot, RelPath(<<"docs">>))}
    /\ Idle

NextDocs == WalkSkip \/ WalkVisit \/ WalkVisitFails \/ WalkReturn

SpecDocs == InitDocs /\ [][NextDocs]_vars

\* get_recent_changes called on a generator whose branch main holds up to
\* MaxHistory commits.
InitChanges ==
    /\ cwd = RepoDir
    /\ repo_path = RelPath(<<>>)
    /\ output_path = OutputRoot
    /\ tracked = {<<"README.md">>}
    /\ scan = <<".git", "src", "tests">>
    /\ remote = [exists |-> TRUE, url |-> <<"https://", "gitlab.com", "/", "x">>,
                 refs |-> <<>>]
    /\ gen = TRUE /\ serve = FALSE /\ open = FALSE
    /\ include_changelog = TRUE /\ count_tokens = FALSE
    /\ usage = NoUsage
    /\ commits \in {History(n, d) : n \in 0..MaxHistory, d \in Diffs}
    /\ outExists = TRUE
    /\ pc = "changes"
    /\ caller = "direct"
    /\ repo_url = RepoUrl(remote.url)
    /\ repo_url_file_prefix = FilePrefix(remote.url, remote.refs)
    /\ walk = <<>>
    /\ dirs_made = {}
    /\ Idle

NextChanges == GetRecentChanges

SpecChanges == InitChanges /\ [][NextChanges]_vars

-----------------------------------------------------------------------------
(* What the claims speak of, stated on the work tree itself: d is a        *)
(* directory of the work tree, given relative to its root.                 *)

\* d holds a tracked file, directly or further down.
TrackedContaining(d) == \E f \in tracked : Len(f) > Len(d) /\ IsPrefix(d, f)

\* e is d or lies below d.
Below(e, d) == IsPrefix(d, e)

\* The model calls made for the directory d.
DirCalls(d) ==
    {i \in 1..Len(calls) :
        calls[i].kind = "dir" /\ Resolve(calls[i].root) = AbsPath(RepoDir \o d)}

\* The directory of the work tree the i-th call was made for.
CallDir(i) ==
    LET r == Resolve(calls[i].root).parts IN SubSeq(r, Len(RepoDir) + 1, Len(r))

\* In generate_docs the i-th write is the summary of the i-th call.
SummaryWritten(d) == \E i \in DirCalls(d) : calls[i].ok /\ i <= Len(written)

HasClause(system, name) == \E k \in 1..Len(system) : system[k].clause = name

\* The "previously generated documentation" section of a prompt, <<>> if absent.
PrevDocs(prompt) ==
    LET Is(sec) == sec.section = "Previously generated documentation"
        found == SelectSeq(prompt, Is)
    IN  IF found = <<>> THEN <<>> ELSE found[1].body

\* The calls before the i-th made for directories at or below the i-th call's.
EarlierBelow(i) ==
    LET Keep(j) == Below(CallDir(j), CallDir(i))
    IN  SelectSeq([j \in 1..(i - 1) |-> j], Keep)

-----------------------------------------------------------------------------
(* C1 *)

\* C1 (as claimed): when generate_docs has returned, every tracked-containing
\* directory has been visited exactly once, and the summary of every
\* tracked-containing descendant E of a directory D was recorded before D's
\* prompt was built.
C1_EveryTrackedDirectoryOnceBottomUp ==
    pc = "returned" =>
        /\ \A d \in DiskDirs : TrackedContaining(d) => Cardinality(DirCalls(d)) = 1
        /\ \A d, e \in DiskDirs :
              (TrackedContaining(d) /\ TrackedContaining(e) /\ e # d /\ Below(e, d)) =>
                  \A i \in DirCalls(d) : \E j \in DirCalls(e) : j < i /\ calls[j].ok

-----------------------------------------------------------------------------
(* C2 *)

\* C2 (as claimed): when generate_docs has returned, a summary document exists
\* for a directory if and only if it is tracked-containing, and a directory
\* with no tracked file beneath it got no model call.
C2_DocumentIffTrackedContaining ==
    pc = "returned" =>
        \A d \in DiskDirs :
            /\ SummaryWritten(d) <=> TrackedContaining(d)
            /\ ~TrackedContaining(d) => DirCalls(d) = {}

-----------------------------------------------------------------------------
(* C3 *)

\* C3 (as claimed): every summary is written to <output root>/docs/<directory
\* relative to the repository root>/README.md, every file written lies under the
\* output root, and none lies inside the scanned repository.
C3_SummariesMirroredUnderOutputRoot ==
    \A i \in 1..Len(written) :
        /\ written[i].path =
               AbsPath(Resolve(output_path).parts \o <<"docs">> \o CallDir(i)
                       \o <<"README.md">>)
        /\ IsRelativeTo(written[i].path, Resolve(output_path))
        /\ ~IsRelativeTo(written[i].path, AbsPath(RepoDir))

-----------------------------------------------------------------------------
(* C4 *)

\* C4 (as claimed): the "previously generated documentation" section of the
\* prompt built for R holds exactly the summaries recorded for R or a descendant
\* of R, in the order they were recorded, each labelled with its directory's
\* path relative to R followed by README.md.
C4_LabelsRelativeToCurrentDirectory ==
    \A i \in 1..Len(calls) :
        calls[i].kind = "dir" =>
            PrevDocs(calls[i].prompt) =
                [k \in 1..Len(EarlierBelow(i)) |->
                    LET j == EarlierBelow(i)[k]
                    IN  [label |-> RelPath(SubSeq(CallDir(j), Len(CallDir(i)) + 1,
                                                  Len(CallDir(j))) \o <<"README.md">>),
                         content |-> ResponseText(j)]]

\* C4 (amended): the section holds exactly the summaries recorded for R or a
\* descendant of R, in the order they were recorded, each labelled with its
\* directory's path relative to the repository root followed by README.md.
C4_LabelsRelativeToRepositoryRoot ==
    \A i \in 1..Len(calls) :
        calls[i].kind = "dir" =>
            PrevDocs(calls[i].prompt) =
                [k \in 1..Len(EarlierBelow(i)) |->
                    LET j == EarlierBelow(i)[k]
                    IN  [label |-> RelPath(CallDir(j) \o <<"README.md">>),
                         content |-> ResponseText(j)]]

\* A prompt built for src after tests and src/pkg were summarised: it holds the
\* summary of src/pkg alone.
C4_Witness ==
    \E i \in 1..Len(calls) :
        /\ CallDir(i) = <<"src">>
        /\ \E j \in 1..(i - 1) : CallDir(j) = <<"tests">>
        /\ \E j \in 1..(i - 1) : CallDir(j) = <<"src", "pkg">>
        /\ Len(PrevDocs(calls[i].prompt)) = 1

-----------------------------------------------------------------------------
(* C8 *)

\* C8 (as claimed): the system instruction carries the root clause for the visit
\* of the repository root and for no other, and a completed run made exactly one
\* model call that carries it.
C8_ExactlyOneRootClausePerRun ==
    /\ \A i \in 1..Len(calls) :
          calls[i].kind = "dir" =>
              (HasClause(calls[i].system, "repository root") <=> CallDir(i) = <<>>)
    /\ pc = "returned" =>
          Cardinality({i \in 1..Len(calls) :
                          HasClause(calls[i].system, "repository root")}) = 1

\* C8 (amended): the system instruction carries the root clause for the visit
\* of the repository root and for no other; at most one model call of a run
\* carries it, and none does when the root is not visited.
C8_RootClauseOnlyAtRoot ==
    /\ \A i \in 1..Len(calls) :
          calls[i].kind = "dir" =>
              (HasClause(calls[i].system, "repository root") <=> CallDir(i) = <<>>)
    /\ Cardinality({i \in 1..Len(calls) :
                       HasClause(calls[i].system, "repository root")}) <= 1
    /\ DirCalls(<<>>) = {} =>
          \A i \in 1..Len(calls) : ~HasClause(calls[i].system, "repository root")

\* A completed run whose last call, for the root, carries the clause and whose
\* earlier call does not.
C8_Witness ==
    /\ pc = "returned"
    /\ Len(calls) >= 2
    /\ CallDir(Len(calls)) = <<>>
    /\ HasClause(calls[Len(calls)].system, "repository root")
    /\ ~HasClause(calls[1].system, "repository root")

-----------------------------------------------------------------------------
(* C5 *)

WrittenAt(parts) == \E i \in 1..Len(written) : written[i].path = AbsPath(parts)

Printed(msg) == \E i \in 1..Len(echoed) : echoed[i] = msg

\* C5 (as claimed): with generation disabled, no output directory and serving
\* requested by --serve or by --open, the run prints the "no generated
\* documentation" error, does not raise, and neither serves nor opens the browser.
C5_RefusesToServeWithoutDocs ==
    (remote.exists /\ ~gen /\ ~outExists /\ (serve \/ open)) =>
        /\ pc # "raised"
        /\ ~served /\ ~opened
        /\ pc = "done" => Printed(NoDocsError)

-----------------------------------------------------------------------------
(* C6 *)

ConfigurationWritten ==
    WrittenAt(<<"out", "mkdocs.yml">>) /\ WrittenAt(<<"out", "my_hooks.py">>)

\* C6 (as claimed): every invocation that constructs the generator has written
\* the site configuration and the hook file by the time it ends.
C6_ConfigurationAlwaysWritten ==
    (remote.exists /\ pc \in {"done", "raised"}) => ConfigurationWritten

\* C6 (amended): an invocation that generates to completion, or that skips
\* generation with the output directory in place, has written both files when it
\* starts the server and when it ends; one that skips generation with no output
\* directory writes neither.
C6_ConfigurationWrittenWhenOutputExists ==
    /\ (pc \in {"serve", "done"} /\ (gen \/ outExists)) => ConfigurationWritten
    /\ served => ConfigurationWritten
    /\ (~gen /\ ~outExists) =>
          ~WrittenAt(<<"out", "mkdocs.yml">>) /\ ~WrittenAt(<<"out", "my_hooks.py">>)

\* An invocation that skipped generation has ended with both files written.
C6_Witness ==
    pc = "done" /\ ~gen /\ calls = <<>> /\ ConfigurationWritten

-----------------------------------------------------------------------------
(* C7 *)

LinkPrefixes ==
    UNION {{calls[i].system[k].arg :
               k \in {k \in 1..Len(calls[i].system) :
                         calls[i].system[k].clause = "link files"}} :
           i \in 1..Len(calls)}

Recognized == remote.exists /\ remote.url[2] = "github.com"

\* C7 (as claimed): construction does not fail for want of a remote; with no
\* remote or an unrecognized host no system instruction has the file-link
\* clause; with a recognized host the link prefix names the branch main when
\* origin has no refs and the first origin ref's branch otherwise.
C7_ConstructionToleratesRemote ==
    /\ ~remote.exists => pc # "raised"
    /\ ~Recognized => LinkPrefixes = {}
    /\ (Recognized /\ remote.refs = <<>>) => \A p \in LinkPrefixes : p[3] = "main"
    /\ (Recognized /\ remote.refs # <<>>) =>
          \A p \in LinkPrefixes : p[3] = remote.refs[1].remote_head

-----------------------------------------------------------------------------
(* C10 *)

\* C10: no directory and no changelog gets a second model call; a failed call
\* is the last thing the run does: the run has raised, nothing was written or
\* recorded for the failing directory, and no changelog, configuration or server
\* start follows.
C10_ModelFailureAbortsTheRun ==
    /\ \A i, j \in 1..Len(calls) :
          (i # j /\ calls[i].kind = calls[j].kind) => calls[i].root # calls[j].root
    /\ \A i \in 1..Len(calls) :
          ~calls[i].ok =>
              /\ i = Len(calls)
              /\ pc = "raised"
              /\ Len(written) = i - 1
              /\ calls[i].kind = "dir" =>
                    /\ ~WrittenAt(<<"out", "docs">> \o CallDir(i) \o <<"README.md">>)
                    /\ \A k \in 1..Len(generated_readmes) :
                          generated_readmes[k].dir # calls[i].root
              /\ ~WrittenAt(<<"out", "docs", "CHANGELOG.md">>)
              /\ ~WrittenAt(<<"out", "mkdocs.yml">>)
              /\ ~WrittenAt(<<"out", "my_hooks.py">>)
              /\ ~served /\ ~opened

\* The model failed on a directory after it had answered for another.
C10_Witness ==
    /\ Len(calls) >= 2
    /\ calls[Len(calls)].kind = "dir"
    /\ ~calls[Len(calls)].ok
    /\ calls[1].ok
    /\ serve

-----------------------------------------------------------------------------
(* C9 *)

\* The record of file d of the i-th commit, if get_recent_changes made one.
FileRecords(i, d) ==
    {k \in 1..Len(changes[i].files) : changes[i].files[k].path = d.a_path}

Decodable(d) == d.a_path # <<>> /\ d.diff.valid

\* C9 (as claimed): every diff text returned is at most 500 bytes long, and a
\* decodable diff of more than 500 bytes is returned as exactly 500 bytes.
C9_DiffCappedAt500Bytes ==
    pc = "returned" =>
        \A i \in 1..Len(changes) :
            /\ \A k \in 1..Len(changes[i].files) :
                  ByteLen(changes[i].files[k].diff) <= 500
            /\ \A n \in 1..Len(commits[i].diff) :
                  LET d == commits[i].diff[n]
                  IN  (Decodable(d) /\ ByteLen(d.diff.runs) > 500) =>
                          \E k \in FileRecords(i, d) :
                              ByteLen(changes[i].files[k].diff) = 500

\* C9 (amended): every diff text returned is at most 500 characters long, and a
\* decodable diff of more than 500 characters is returned as exactly its first
\* 500 characters; a shorter one is returned whole.
C9_DiffCappedAt500Characters ==
    pc = "returned" =>
        \A i \in 1..Len(changes) :
            /\ \A k \in 1..Len(changes[i].files) :
                  CharLen(changes[i].files[k].diff) <= 500
            /\ \A n \in 1..Len(commits[i].diff) :
                  LET d == commits[i].diff[n]
                  IN  Decodable(d) =>
                          \E k \in FileRecords(i, d) :
                              CharLen(changes[i].files[k].diff) =
                                  IF CharLen(d.diff.runs) > 500 THEN 500
                                  ELSE CharLen(d.diff.runs)

\* A diff of 600 characters of several bytes each was returned as 500
\* characters, which are more than 500 bytes.
C9_Witness ==
    /\ pc = "returned"
    /\ \E i \in 1..Len(changes) : \E k \in 1..Len(changes[i].files) :
          /\ CharLen(commits[i].diff[1].diff.runs) = 600
          /\ CharLen(changes[i].files[k].diff) = 500
          /\ ByteLen(changes[i].files[k].diff) > 500

====
